---- MODULE Spec2Model ----
(***************************************************************************)
(* The UIO register access engine of ProtocolUIO_reg_access.cpp: the       *)
(* SigBusGuard (process-wide mutex, SIGBUS handler, thread signal mask,    *)
(* sigsetjmp checkpoint), the six access operations of class UIO and its   *)
(* dispatch buffer (valwords).                                             *)
(*                                                                         *)
(* A uint32_t is the pair <<hi, lo>> of its 16-bit halves, so that the     *)
(* wrap-around of aAddr - dev.uhalAddr and of readval += aAddend is        *)
(* computed at full width.                                                 *)
(***************************************************************************)
EXTENDS Integers, Sequences, FiniteSets, TLC

\* ------------------------------------------------------------- bounds
\* Threads of the process that call into the engine.
NumThreads == 2
\* Access operations the process starts in a run.
MaxOps == 2
\* Longest block handed to readBlock / writeBlock.
MaxCount == 2
\* Words in the window of each registered device.
WindowWords == 2

Half == 65536

Threads == 1..NumThreads

\* ------------------------------------------------------------ uint32_t
U32(n) == <<n \div Half, n % Half>>

Add32(a, b) ==
  LET lo == a[2] + b[2]
      hi == a[1] + b[1] + (lo \div Half)
  IN  <<hi % Half, lo % Half>>

Sub32(a, b) ==
  LET lo == a[2] - b[2]
      br == IF lo < 0 THEN 1 ELSE 0
      hi == a[1] - b[1] - br
  IN  <<(hi + Half) % Half, (lo + Half) % Half>>

Lt32(a, b) == a[1] < b[1] \/ (a[1] = b[1] /\ a[2] < b[2])

Ge32(a, b) == ~Lt32(a, b)

RECURSIVE And16(_, _, _)
And16(x, y, bits) ==
  IF bits = 0 THEN 0
  ELSE 2 * And16(x \div 2, y \div 2, bits - 1) + ((x % 2) * (y % 2))

RECURSIVE Or16(_, _, _)
Or16(x, y, bits) ==
  IF bits = 0 THEN 0
  ELSE 2 * Or16(x \div 2, y \div 2, bits - 1)
       + (IF (x % 2) + (y % 2) > 0 THEN 1 ELSE 0)

And32(a, b) == <<And16(a[1], b[1], 16), And16(a[2], b[2], 16)>>

Or32(a, b) == <<Or16(a[1], b[1], 16), Or16(a[2], b[2], 16)>>

RECURSIVE Hex(_, _)
\* The `digits` low hexadecimal digits of n, most significant first.
Hex(n, digits) ==
  IF digits = 0 THEN <<>> ELSE Append(Hex(n \div 16, digits - 1), n % 16)

\* "%08X": the eight hexadecimal digits of a 32-bit value.
Hex8(a) == Hex(a[1], 4) \o Hex(a[2], 4)

\* ---------------------------------------------------- device registry
BaseFirst == U32(4096)
\* 0x200F: the second window crosses a change of the seventh hex digit.
BaseSecond == U32(8207)

\* std::map<uint32_t, sUIODevice> devices, in key order. hw names the mapping.
devices ==
  << [uhalAddr |-> BaseFirst,  size |-> U32(WindowWords), hw |-> 1],
     [uhalAddr |-> BaseSecond, size |-> U32(WindowWords), hw |-> 2] >>

\* A pointer that is no device's mapping.
Wild == 0

\* What the bytes behind the map's header node may read as, were they a
\* pair<const uint32_t, sUIODevice>.
GarbageDevices ==
  { [uhalAddr |-> U32(0), size |-> <<Half - 1, Half - 1>>, hw |-> Wild],
    [uhalAddr |-> U32(0), size |-> U32(0), hw |-> Wild] }

\* devices.lower_bound(aAddr): the first entry whose key is not less than
\* aAddr.
lower_bound(aAddr) ==
  LET later == {k \in 1..Len(devices) : ~Lt32(devices[k].uhalAddr, aAddr)}
  IN  IF later = {} THEN Len(devices) + 1
      ELSE CHOOSE k \in later : \A j \in later : k <= j

\* devices.upper_bound(aAddr): the first entry whose key is greater than
\* aAddr, Len(devices) + 1 standing for end().
upper_bound(aAddr) ==
  LET later == {k \in 1..Len(devices) : Lt32(aAddr, devices[k].uhalAddr)}
  IN  IF later = {} THEN Len(devices) + 1
      ELSE CHOOSE k \in later : \A j \in later : k <= j

\* (--(devices.upper_bound(aAddr)))->second: the entry before upper_bound.
\* Decrementing begin() is undefined: the tree walk ends on the first entry
\* (the root is the leftmost node) or on the header node, whose value is
\* whatever lies behind it.
Resolve(aAddr) ==
  IF upper_bound(aAddr) > 1
  THEN {devices[upper_bound(aAddr) - 1]}
  ELSE {devices[1]} \cup GarbageDevices

\* offset > dev.size: the boundary word passes the check.
OutOfRangeStrict(offset, size) == Lt32(size, offset)

\* offset >= dev.size
OutOfRange(offset, size) == Ge32(offset, size)

\* (offset + aValues.size()) > dev.size: a block that ends on the last word
\* of the window passes.
BlockOutOfRangeExact(offset, count, size) ==
  LET sumLo == offset[2] + count
      sum == <<offset[1] + (sumLo \div Half), sumLo % Half>>
  IN  Lt32(size, sum)

\* (offset + aValues.size()) >= dev.size, in size_t arithmetic (no wrap
\* for a 32-bit offset and a vector's length).
BlockOutOfRange(offset, count, size) ==
  LET sumLo == offset[2] + count
      sum == <<offset[1] + (sumLo \div Half), sumLo % Half>>
  IN  ~Lt32(sum, size)

\* --------------------------------------------------------- hardware
\* Device 1 answers at every word; device 2 answers at word 0 only: a load
\* or store of another word of its window raises SIGBUS.
Answers(h, off) == h = 1 \/ (h = 2 /\ off = 0)

InWindow(dev, offset) == dev.hw # Wild /\ Lt32(offset, dev.size)

Index(offset) == offset[1] * Half + offset[2]

Words == {U32(255), <<Half - 1, Half - 1>>}

\* snprintf(error_message, strlen(error_message), "Reg: 0x%08X", ADDRESS):
\* strlen is 15, so at most 14 characters are written: "Reg: 0x" and the
\* first seven digits. The message is modelled by its digits.
FormatMsg(aAddr) == SubSeq(Hex8(aAddr), 1, 7)

\* ------------------------------------------------------------- state
VARIABLES
  pc,              \* each thread's position: idle, lock, ctor, access, dtor,
                   \* dispatch, done
  op,              \* the operation each thread is in (its arguments and locals)
  result,          \* what the finished operation returned or threw
  touched,         \* the <<hw, offset>> loads and stores of the operation
  sMutex,          \* SigBusGuard::sMutex: 0, or the thread that holds it
  sEnv,            \* SigBusGuard::sEnv: the checkpoint sigsetjmp saved
  handler,         \* the process's SIGBUS disposition
  sigmask,         \* each thread's blocked signals
  mOriginalAction, \* each thread's guard: the disposition sigaction returned
  mOriginalMask,   \* each thread's guard: the mask pthread_sigmask returned
  hw,              \* the mapped memory: hw[h][k] is word k of mapping h
  valwords,        \* each thread's engine: the buffered handles
  heap,            \* each thread's engine: the ValWord members behind handles
  primed,          \* each thread's engine: checkBufferSpace has been called
  nDispatch,       \* each thread's engine: dispatches started so far
  marked,          \* each thread's engine: handles marked by the dispatch, in order
  blocked,         \* each thread: it has called SigBusGuard::blockSIGBUS
  faulted,         \* a SIGBUS has been turned into a SigBusError
  budget,          \* access operations the process may still start
  crashed          \* the process has been killed

vars == <<pc, op, result, touched, sMutex, sEnv, handler, sigmask,
          mOriginalAction, mOriginalMask, hw, valwords, heap, primed,
          nDispatch, marked, blocked, faulted, budget, crashed>>

\* The signals that matter to a mask: SIGBUS, SIGINT, and SIGUSR1 for every
\* other blockable signal.
Signals == {"SIGBUS", "SIGINT", "SIGUSR1"}

\* lMaskedSignals: sigfillset less SIGKILL, SIGSTOP, SIGINT and SIGBUS.
GuardMask == Signals \ {"SIGINT", "SIGBUS"}

\* The fixed-offset block mode and INCREMENTAL.
Modes == {"NON_INCREMENTAL", "INCREMENTAL"}

\* The mapped memory with every word zero.
Blank == [h \in {1, 2} |-> [k \in 0..(WindowWords - 1) |-> U32(0)]]

\* hw0, handler0 and mask0 record the memory, the SIGBUS disposition and the
\* calling thread's mask as they were when the operation was called.
NoOp ==
  [kind |-> "none", aAddr |-> U32(0), dev |-> devices[1], offset |-> U32(0),
   mode |-> "NON_INCREMENTAL", stage |-> 0, readval |-> U32(0),
   arg1 |-> U32(0), arg2 |-> U32(0), vals |-> <<>>, i |-> 0,
   hw0 |-> Blank, handler0 |-> "SIG_DFL", mask0 |-> {}]

NoResult == [err |-> "none", msg |-> <<>>, val |-> <<>>]

\* The addresses operations are called with: one below the first window,
\* and every word of each window up to the word just past it.
Addrs ==
  {Sub32(BaseFirst, U32(1))}
    \cup {Add32(devices[d].uhalAddr, U32(k)) :
            d \in 1..Len(devices), k \in 0..WindowWords}

\* The blocks a block write carries: the first n of 0xA1, 0xA2, ...
Blocks(n) == {[k \in 1..m |-> U32(160 + k)] : m \in 0..n}

Init ==
  /\ pc = [t \in Threads |-> "idle"]
  /\ op = [t \in Threads |-> NoOp]
  /\ result = [t \in Threads |-> NoResult]
  /\ touched = [t \in Threads |-> <<>>]
  /\ sMutex = 0
  /\ sEnv = [set |-> FALSE, mask |-> {}]
  /\ handler \in {"SIG_DFL", "app"}
  /\ sigmask \in {[t \in Threads |-> m] : m \in {{}, {"SIGINT", "SIGUSR1"}}}
  /\ blocked = [t \in Threads |-> FALSE]
  /\ faulted = FALSE
  /\ mOriginalAction = [t \in Threads |-> "SIG_DFL"]
  /\ mOriginalMask = [t \in Threads |-> {}]
  /\ hw = Blank
  /\ valwords = [t \in Threads |-> <<>>]
  /\ heap = [t \in Threads |-> <<>>]
  /\ primed = [t \in Threads |-> FALSE]
  /\ nDispatch = [t \in Threads |-> 0]
  /\ marked = [t \in Threads |-> <<>>]
  /\ budget = MaxOps
  /\ crashed = FALSE

\* ------------------------------------------------------ SigBusGuard
\* The load or store the guarded statement of the operation performs.
AccKind(o) ==
  CASE o.kind \in {"write", "writeBlock"} -> "store"
    [] o.kind \in {"read", "readBlock"} -> "load"
    [] OTHER -> IF o.stage = 2 THEN "store" ELSE "load"

\* implementWrite storing its address argument in place of its value.
StoreDataAddr(o) ==
  CASE o.kind = "write" -> o.aAddr
    [] o.kind = "writeBlock" -> o.vals[o.i + 1]
    [] OTHER -> o.readval

\* The word a guarded store writes.
StoreData(o) ==
  CASE o.kind = "write" -> o.arg1
    [] o.kind = "writeBlock" -> o.vals[o.i + 1]
    [] OTHER -> o.readval

\* An exception leaves the operation: the caller sees err and msg.
Throw(t, err, msg) ==
  /\ pc' = [pc EXCEPT ![t] = "done"]
  /\ result' = [result EXCEPT ![t] = [err |-> err, msg |-> msg, val |-> <<>>]]

\* The guard takes the mutex without waiting for its holder.
GuardLockNoWait(t) ==
  /\ ~crashed
  /\ pc[t] = "lock"
  /\ sMutex' = t
  /\ pc' = [pc EXCEPT ![t] = "ctor"]
  /\ UNCHANGED <<blocked, faulted, op, result, touched, sEnv, handler,
                 sigmask, mOriginalAction, mOriginalMask, hw, valwords, heap,
                 primed, nDispatch, marked, budget, crashed>>

\* BLOCKED: mLockGuard(sMutex), the first member of the guard.
GuardLock(t) ==
  /\ ~crashed
  /\ pc[t] = "lock"
  /\ sMutex = 0
  /\ sMutex' = t
  /\ pc' = [pc EXCEPT ![t] = "ctor"]
  /\ UNCHANGED <<blocked, faulted, op, result, touched, sEnv, handler, sigmask, mOriginalAction,
                 mOriginalMask, hw, valwords, heap, primed, nDispatch, marked,
                 budget, crashed>>

\* sigismember(&mOriginalMask, SIGBUS) == 1: the test inverted.
NotBlockedInverted(mask) == "SIGBUS" \in mask

\* sigismember(&mOriginalMask, SIGBUS) != 1
NotBlocked(mask) == "SIGBUS" \notin mask

\* The body of the constructor: sigaction, pthread_sigmask, the check of the
\* original mask, sigsetjmp. An exception here destroys mLockGuard (the
\* mutex is released) and does not run ~SigBusGuard.
GuardCtor(t) ==
  /\ ~crashed
  /\ pc[t] = "ctor"
  /\ mOriginalAction' = [mOriginalAction EXCEPT ![t] = handler]
  /\ handler' = "uhal"
  /\ mOriginalMask' = [mOriginalMask EXCEPT ![t] = sigmask[t]]
  /\ sigmask' = [sigmask EXCEPT ![t] = GuardMask]
  /\ IF NotBlocked(sigmask[t])
     THEN /\ Throw(t, "SignalNotBlocked", <<>>)
          /\ sMutex' = 0
          /\ UNCHANGED sEnv
     ELSE /\ sEnv' = [set |-> TRUE, mask |-> GuardMask]
          /\ pc' = [pc EXCEPT ![t] = "access"]
          /\ UNCHANGED <<result, sMutex>>
  /\ UNCHANGED <<blocked, faulted, op, touched, hw, valwords, heap, primed, nDispatch, marked,
                 budget, crashed>>

\* What a load from memory that is no word of the window may return.
StrayWords == {U32(0), <<Half - 1, Half - 1>>}

\* A message read through the dangling aMessage after its string has died.
GarbageMsg == <<16>>

\* The process is killed: its threads, guards and engines are gone.
Killed ==
  /\ crashed' = TRUE
  /\ pc' = [t \in Threads |-> "idle"]
  /\ op' = [t \in Threads |-> NoOp]
  /\ result' = [t \in Threads |-> NoResult]
  /\ touched' = [t \in Threads |-> <<>>]
  /\ sMutex' = 0
  /\ sEnv' = [set |-> FALSE, mask |-> {}]
  /\ handler' = "SIG_DFL"
  /\ sigmask' = [t \in Threads |-> {}]
  /\ mOriginalAction' = [t \in Threads |-> "SIG_DFL"]
  /\ mOriginalMask' = [t \in Threads |-> {}]
  /\ valwords' = [t \in Threads |-> <<>>]
  /\ heap' = [t \in Threads |-> <<>>]
  /\ primed' = [t \in Threads |-> FALSE]
  /\ nDispatch' = [t \in Threads |-> 0]
  /\ marked' = [t \in Threads |-> <<>>]
  /\ blocked' = [t \in Threads |-> FALSE]
  /\ faulted' = FALSE
  /\ budget' = 0
  /\ UNCHANGED hw

\* ACCESS on a word of the window whose hardware answers.
AccessOk(t) ==
  LET o == op[t]
      k == Index(o.offset)
  IN  /\ ~crashed
      /\ pc[t] = "access"
      /\ InWindow(o.dev, o.offset)
      /\ Answers(o.dev.hw, k)
      /\ touched' = [touched EXCEPT ![t] = Append(@, <<o.dev.hw, o.offset>>)]
      /\ IF AccKind(o) = "store"
         THEN /\ hw' = [hw EXCEPT ![o.dev.hw][k] = StoreData(o)]
              /\ UNCHANGED op
         ELSE /\ op' = [op EXCEPT ![t].readval = hw[o.dev.hw][k]]
              /\ UNCHANGED hw
      /\ pc' = [pc EXCEPT ![t] = "dtor"]
      /\ UNCHANGED <<blocked, faulted, result, sMutex, sEnv, handler, sigmask, mOriginalAction,
                     mOriginalMask, valwords, heap, primed, nDispatch, marked,
                     budget, crashed>>

\* ACCESS through a pointer that is no word of the window (dev.hw[offset]
\* with offset >= dev.size, or the hw of a garbage descriptor): the load
\* returns whatever is there and the store lands outside the windows, or
\* the process is killed (SIGSEGV, which the guard's mask blocks).
AccessStray(t) ==
  LET o == op[t]
  IN  /\ ~crashed
      /\ pc[t] = "access"
      /\ ~InWindow(o.dev, o.offset)
      /\ \/ /\ \E w \in StrayWords :
                 op' = [op EXCEPT ![t].readval =
                          IF AccKind(o) = "load" THEN w ELSE @]
            /\ touched' = [touched EXCEPT ![t] = Append(@, <<o.dev.hw, o.offset>>)]
            /\ pc' = [pc EXCEPT ![t] = "dtor"]
            /\ UNCHANGED <<blocked, faulted, result, sMutex, sEnv, handler, sigmask,
                           mOriginalAction, mOriginalMask, hw, valwords, heap,
                           primed, nDispatch, marked, budget, crashed>>
         \/ Killed

\* The exception of a bus fault leaving the mutex locked.
SigBusKeepLock(t) ==
  LET o == op[t]
  IN  /\ ~crashed
      /\ pc[t] = "access"
      /\ o.dev.hw # Wild
      /\ InWindow(o.dev, o.offset) => ~Answers(o.dev.hw, Index(o.offset))
      /\ \/ /\ \E m \in {FormatMsg(o.aAddr), GarbageMsg} :
                 Throw(t, "SigBusError", m)
            /\ touched' = [touched EXCEPT ![t] = Append(@, <<o.dev.hw, o.offset>>)]
            /\ sigmask' = [sigmask EXCEPT ![t] = sEnv.mask]
            /\ handler' \in {handler, "SIG_DFL"}
            /\ faulted' = TRUE
            /\ UNCHANGED <<blocked, op, sEnv, sMutex, mOriginalAction,
                           mOriginalMask, hw, valwords, heap, primed,
                           nDispatch, marked, budget, crashed>>
         \/ Killed

\* ACCESS raises SIGBUS (a word of a device that does not answer, or a word
\* past the window of a device's mapping): SigBusGuard::handle calls
\* siglongjmp(sEnv, SIGBUS), which restores the mask sigsetjmp saved. mAction.sa_flags is never set,
\* so the disposition may have been reset on delivery (SA_RESETHAND).
\* sigsetjmp was called in the constructor, which has returned: what runs
\* next is undefined. Either the constructor's throw runs (aMessage dangles;
\* the unwinder destroys mLockGuard and, the guard never having finished
\* construction for it, does not run ~SigBusGuard), or the process dies.
SigBus(t) ==
  LET o == op[t]
  IN  /\ ~crashed
      /\ pc[t] = "access"
      /\ o.dev.hw # Wild
      /\ InWindow(o.dev, o.offset) => ~Answers(o.dev.hw, Index(o.offset))
      /\ \/ /\ \E m \in {FormatMsg(o.aAddr), GarbageMsg} :
                 Throw(t, "SigBusError", m)
            /\ touched' = [touched EXCEPT ![t] = Append(@, <<o.dev.hw, o.offset>>)]
            /\ sigmask' = [sigmask EXCEPT ![t] = sEnv.mask]
            /\ handler' \in {handler, "SIG_DFL"}
            /\ sMutex' = 0
            /\ faulted' = TRUE
            /\ UNCHANGED <<blocked, op, sEnv, mOriginalAction, mOriginalMask, hw,
                           valwords, heap, primed, nDispatch, marked, budget,
                           crashed>>
         \/ Killed

\* ------------------------------------------- after a guarded statement
\* ValWord<uint32_t> vw(readval, aMask): members shared by every copy of the
\* handle, not valid until marked. epoch is the number of dispatches started
\* when the word was created.
NewValWord(value, mask, epoch) ==
  [value |-> value, mask |-> mask, valid |-> FALSE, epoch |-> epoch]

\* return: the operation ends and hands val to the caller.
Finish(t, val) ==
  /\ pc' = [pc EXCEPT ![t] = "done"]
  /\ result' = [result EXCEPT ![t] = [err |-> "none", msg |-> <<>>, val |-> val]]

\* implementWrite after the store: return ValHeader().
WriteTail(t) ==
  /\ Finish(t, <<>>)
  /\ UNCHANGED <<op, valwords, heap, primed>>

\* implementRead marks the word valid itself when it buffers it.
ReadTailValid(t) ==
  /\ heap' = [heap EXCEPT ![t] =
                Append(@, [NewValWord(op[t].readval, op[t].arg1, nDispatch[t])
                             EXCEPT !.valid = TRUE])]
  /\ valwords' = [valwords EXCEPT ![t] = Append(@, Len(heap[t]) + 1)]
  /\ primed' = [primed EXCEPT ![t] = TRUE]
  /\ Finish(t, <<Len(heap[t]) + 1>>)
  /\ UNCHANGED op

\* implementRead after the load: vw, valwords.push_back(vw), primeDispatch(),
\* return vw.
ReadTail(t) ==
  /\ heap' = [heap EXCEPT ![t] =
                Append(@, NewValWord(op[t].readval, op[t].arg1, nDispatch[t]))]
  /\ valwords' = [valwords EXCEPT ![t] = Append(@, Len(heap[t]) + 1)]
  /\ primed' = [primed EXCEPT ![t] = TRUE]
  /\ Finish(t, <<Len(heap[t]) + 1>>)
  /\ UNCHANGED op

\* The block loops never advancing offset.
BlockTailFixed(t) ==
  LET o == op[t]
      vals == IF o.kind = "readBlock"
              THEN [o.vals EXCEPT ![o.i + 1] = o.readval]
              ELSE o.vals
  IN  /\ op' = [op EXCEPT ![t] = [o EXCEPT !.vals = vals, !.i = o.i + 1]]
      /\ IF o.i + 1 < Len(o.vals)
         THEN /\ pc' = [pc EXCEPT ![t] = "lock"]
              /\ UNCHANGED result
         ELSE Finish(t, IF o.kind = "readBlock" THEN vals ELSE <<>>)
      /\ UNCHANGED <<valwords, heap, primed>>

\* The end of one pass of the block loops: *ptr = readval (readBlock),
\* offset++ in INCREMENTAL mode, ptr++, and the loop test.
BlockTail(t) ==
  LET o == op[t]
      vals == IF o.kind = "readBlock"
              THEN [o.vals EXCEPT ![o.i + 1] = o.readval]
              ELSE o.vals
      offset == IF o.mode = "INCREMENTAL" THEN Add32(o.offset, U32(1))
                ELSE o.offset
  IN  /\ op' = [op EXCEPT ![t] = [o EXCEPT !.vals = vals, !.offset = offset,
                                            !.i = o.i + 1]]
      /\ IF o.i + 1 < Len(o.vals)
         THEN /\ pc' = [pc EXCEPT ![t] = "lock"]
              /\ UNCHANGED result
         ELSE Finish(t, IF o.kind = "readBlock" THEN vals ELSE <<>>)
      /\ UNCHANGED <<valwords, heap, primed>>

\* The OR applied before the AND.
ModifySwapped(o) ==
  IF o.kind = "RMWbits" THEN And32(Or32(o.readval, o.arg2), o.arg1)
  ELSE Add32(o.readval, o.arg1)

\* The sum saturating at 0xFFFFFFFF instead of wrapping.
ModifySaturating(o) ==
  IF o.kind = "RMWbits" THEN Or32(And32(o.readval, o.arg1), o.arg2)
  ELSE IF o.readval[1] + o.arg1[1] + ((o.readval[2] + o.arg1[2]) \div Half) >= Half
       THEN <<Half - 1, Half - 1>>
       ELSE Add32(o.readval, o.arg1)

\* readval &= aANDterm; readval |= aORterm (implementRMWbits), or
\* readval += aAddend (implementRMWsum).
Modify(o) ==
  IF o.kind = "RMWbits" THEN Or32(And32(o.readval, o.arg1), o.arg2)
  ELSE Add32(o.readval, o.arg1)

\* implementRMWbits / implementRMWsum between and after their three guarded
\* statements: load, modify, store, load, return ValWord(readval).
RMWTail(t) ==
  LET o == op[t]
  IN  /\ IF o.stage < 3
         THEN /\ op' = [op EXCEPT ![t] =
                          [o EXCEPT !.stage = o.stage + 1,
                                    !.readval = IF o.stage = 1 THEN Modify(o)
                                                ELSE o.readval]]
              /\ pc' = [pc EXCEPT ![t] = "lock"]
              /\ UNCHANGED result
         ELSE /\ Finish(t, <<o.readval>>)
              /\ UNCHANGED op
      /\ UNCHANGED <<valwords, heap, primed>>

\* The destructor restoring the handler and leaving the mask as it is.
GuardDtorKeepMask(t) ==
  /\ ~crashed
  /\ pc[t] = "dtor"
  /\ handler' = mOriginalAction[t]
  /\ sMutex' = 0
  /\ CASE op[t].kind = "write" -> WriteTail(t)
       [] op[t].kind = "read" -> ReadTail(t)
       [] op[t].kind \in {"readBlock", "writeBlock"} -> BlockTail(t)
       [] OTHER -> RMWTail(t)
  /\ UNCHANGED <<blocked, faulted, touched, sEnv, sigmask, mOriginalAction,
                 mOriginalMask, hw, nDispatch, marked, budget, crashed>>

\* ~SigBusGuard, then ~mLockGuard, then what the operation does next.
GuardDtor(t) ==
  /\ ~crashed
  /\ pc[t] = "dtor"
  /\ handler' = mOriginalAction[t]
  /\ sigmask' = [sigmask EXCEPT ![t] = mOriginalMask[t]]
  /\ sMutex' = 0
  /\ CASE op[t].kind = "write" -> WriteTail(t)
       [] op[t].kind = "read" -> ReadTail(t)
       [] op[t].kind \in {"readBlock", "writeBlock"} -> BlockTail(t)
       [] OTHER -> RMWTail(t)
  /\ UNCHANGED <<blocked, faulted, touched, sEnv, mOriginalAction, mOriginalMask, hw, nDispatch,
                 marked, budget, crashed>>

\* ------------------------------------------------- access operations
\* aMask of a read.
Masks == {<<Half - 1, Half - 1>>, U32(255)}

\* aAddend of a read-modify-write sum: +1 and -1 as 32-bit patterns.
Addends == {U32(1), <<Half - 1, Half - 1>>}

\* The arguments the sole caller of a single-threaded process passes.
Inputs ==
  [addrs |-> Addrs, words |-> Words, masks |-> Masks, addends |-> Addends,
   ands |-> {U32(0), <<Half - 1, Half - 1>>}, ors |-> {U32(255)},
   counts |-> 0..MaxCount, modes |-> Modes]

\* The arguments the threads of a multi-threaded process pass: a word
\* that answers and a word that does not.
InputsMT ==
  [addrs |-> {BaseFirst, Add32(BaseSecond, U32(1))},
   words |-> {U32(255)}, masks |-> {<<Half - 1, Half - 1>>},
   addends |-> {U32(1)}, ands |-> {U32(0)}, ors |-> {U32(255)},
   counts |-> 1..1, modes |-> {"INCREMENTAL"}]

\* A call of thread t: it is between operations and the process may start one.
Call(t) ==
  /\ ~crashed
  /\ pc[t] = "idle"
  /\ budget > 0
  /\ budget' = budget - 1
  /\ touched' = [touched EXCEPT ![t] = <<>>]
  /\ UNCHANGED <<blocked, faulted, sMutex, sEnv, handler, sigmask, mOriginalAction,
                 mOriginalMask, hw, valwords, heap, primed, nDispatch, marked,
                 crashed>>

\* The operation's arguments and locals once dev and offset are computed.
Frame(t, kind, aAddr, dev, arg1, arg2, vals, mode) ==
  [kind |-> kind, aAddr |-> aAddr, dev |-> dev,
   offset |-> Sub32(aAddr, dev.uhalAddr), mode |-> mode, stage |-> 1,
   readval |-> U32(0), arg1 |-> arg1, arg2 |-> arg2, vals |-> vals, i |-> 0,
   hw0 |-> hw, handler0 |-> handler, mask0 |-> sigmask[t]]

\* throw UIODevOOR: "Address (<address>) out of mapped range".
ThrowOOR(t, o, address) ==
  /\ op' = [op EXCEPT ![t] = o]
  /\ Throw(t, "UIODevOOR", Hex8(address))

\* The operation goes on to its first BUS_ERROR_PROTECTION.
Enter(t, o) ==
  /\ op' = [op EXCEPT ![t] = o]
  /\ pc' = [pc EXCEPT ![t] = "lock"]
  /\ UNCHANGED result

\* A block loop over no element: the operation returns at once.
ReturnEmpty(t, o) ==
  /\ op' = [op EXCEPT ![t] = o]
  /\ Finish(t, <<>>)

implementWrite(t, in) ==
  /\ Call(t)
  /\ \E aAddr \in in.addrs, aValue \in in.words :
     \E dev \in Resolve(aAddr) :
       LET o == Frame(t, "write", aAddr, dev, aValue, U32(0), <<>>, "NON_INCREMENTAL")
       IN  IF OutOfRange(o.offset, dev.size)
           THEN ThrowOOR(t, o, aAddr)
           ELSE Enter(t, o)

\* implementWriteBlock with the end of the block checked inside the loop,
\* after the first word has been stored.
implementWriteBlockLate(t, in) ==
  /\ ~crashed
  /\ pc[t] = "idle"
  /\ budget > 0
  /\ budget' = budget - 1
  /\ \E aAddr \in in.addrs, n \in in.counts, aMode \in in.modes :
     \E aValues \in {b \in Blocks(MaxCount) : Len(b) = n} :
     \E dev \in Resolve(aAddr) :
       LET o == Frame(t, "writeBlock", aAddr, dev, U32(0), U32(0), aValues, aMode)
           late == /\ BlockOutOfRange(o.offset, Len(aValues), dev.size)
                   /\ InWindow(dev, o.offset)
                   /\ Answers(dev.hw, Index(o.offset))
                   /\ Len(aValues) > 0
       IN  /\ IF OutOfRange(o.offset, dev.size)
              THEN ThrowOOR(t, o, aAddr)
              ELSE IF BlockOutOfRange(o.offset, Len(aValues), dev.size)
              THEN ThrowOOR(t, o, Add32(aAddr, U32(Len(aValues))))
              ELSE IF Len(aValues) = 0
              THEN ReturnEmpty(t, o)
              ELSE Enter(t, o)
           /\ hw' = IF late
                    THEN [hw EXCEPT ![dev.hw][Index(o.offset)] = aValues[1]]
                    ELSE hw
           /\ touched' = [touched EXCEPT ![t] =
                            IF late THEN <<<<dev.hw, o.offset>>>> ELSE <<>>]
  /\ UNCHANGED <<blocked, faulted, sMutex, sEnv, handler, sigmask,
                 mOriginalAction, mOriginalMask, valwords, heap, primed,
                 nDispatch, marked, crashed>>

implementWriteBlock(t, in) ==
  /\ Call(t)
  /\ \E aAddr \in in.addrs, n \in in.counts, aMode \in in.modes :
     \E aValues \in {b \in Blocks(MaxCount) : Len(b) = n} :
     \E dev \in Resolve(aAddr) :
       LET o == Frame(t, "writeBlock", aAddr, dev, U32(0), U32(0), aValues, aMode)
       IN  IF OutOfRange(o.offset, dev.size)
           THEN ThrowOOR(t, o, aAddr)
           ELSE IF BlockOutOfRange(o.offset, Len(aValues), dev.size)
           THEN ThrowOOR(t, o, Add32(aAddr, U32(Len(aValues))))
           ELSE IF Len(aValues) = 0
           THEN ReturnEmpty(t, o)
           ELSE Enter(t, o)

implementRead(t, in) ==
  /\ Call(t)
  /\ \E aAddr \in in.addrs, aMask \in in.masks :
     \E dev \in Resolve(aAddr) :
       LET o == Frame(t, "read", aAddr, dev, aMask, U32(0), <<>>, "NON_INCREMENTAL")
       IN  IF OutOfRange(o.offset, dev.size)
           THEN ThrowOOR(t, o, aAddr)
           ELSE Enter(t, o)

implementReadBlock(t, in) ==
  /\ Call(t)
  /\ \E aAddr \in in.addrs, aSize \in in.counts, aMode \in in.modes :
     \E dev \in Resolve(aAddr) :
       LET o == Frame(t, "readBlock", aAddr, dev, U32(0), U32(0),
                      [k \in 1..aSize |-> U32(0)], aMode)
       IN  IF OutOfRange(o.offset, dev.size)
           THEN ThrowOOR(t, o, aAddr)
           ELSE IF aSize = 0
           THEN ReturnEmpty(t, o)
           ELSE Enter(t, o)

implementRMWbits(t, in) ==
  /\ Call(t)
  /\ \E aAddr \in in.addrs, aANDterm \in in.ands, aORterm \in in.ors :
     \E dev \in Resolve(aAddr) :
       LET o == Frame(t, "RMWbits", aAddr, dev, aANDterm, aORterm, <<>>,
                      "NON_INCREMENTAL")
       IN  IF OutOfRange(o.offset, dev.size)
           THEN ThrowOOR(t, o, aAddr)
           ELSE Enter(t, o)

implementRMWsum(t, in) ==
  /\ Call(t)
  /\ \E aAddr \in in.addrs, aAddend \in in.addends :
     \E dev \in Resolve(aAddr) :
       LET o == Frame(t, "RMWsum", aAddr, dev, aAddend, U32(0), <<>>,
                      "NON_INCREMENTAL")
       IN  IF OutOfRange(o.offset, dev.size)
           THEN ThrowOOR(t, o, aAddr)
           ELSE Enter(t, o)

\* --------------------------------------------------- dispatch buffer
\* The framework calls implementDispatch once after a checkBufferSpace
\* (primeDispatch), never otherwise.
implementDispatch(t) ==
  /\ ~crashed
  /\ pc[t] = "idle"
  /\ primed[t]
  /\ primed' = [primed EXCEPT ![t] = FALSE]
  /\ nDispatch' = [nDispatch EXCEPT ![t] = @ + 1]
  /\ marked' = [marked EXCEPT ![t] = <<>>]
  /\ op' = [op EXCEPT ![t] = [NoOp EXCEPT !.kind = "dispatch"]]
  /\ pc' = [pc EXCEPT ![t] = "dispatch"]
  /\ touched' = [touched EXCEPT ![t] = <<>>]
  /\ UNCHANGED <<blocked, faulted, result, sMutex, sEnv, handler, sigmask, mOriginalAction,
                 mOriginalMask, hw, valwords, heap, budget, crashed>>

\* The dispatch loop stopping one element early: i < valwords.size() - 1.
DispatchStepShort(t) ==
  LET i == op[t].i
  IN  /\ ~crashed
      /\ pc[t] = "dispatch"
      /\ IF i + 1 < Len(valwords[t])
         THEN /\ heap' = [heap EXCEPT ![t][valwords[t][i + 1]].valid = TRUE]
              /\ marked' = [marked EXCEPT ![t] = Append(@, valwords[t][i + 1])]
              /\ op' = [op EXCEPT ![t].i = i + 1]
              /\ UNCHANGED <<pc, result, valwords>>
         ELSE /\ valwords' = [valwords EXCEPT ![t] = <<>>]
              /\ Finish(t, <<>>)
              /\ UNCHANGED <<heap, marked, op>>
      /\ UNCHANGED <<blocked, faulted, touched, sMutex, sEnv, handler, sigmask,
                     mOriginalAction, mOriginalMask, hw, primed, nDispatch,
                     budget, crashed>>

\* One pass of for (i = 0; i < valwords.size(); i++) valwords[i].valid(true),
\* and valwords.clear() when the loop ends.
DispatchStep(t) ==
  LET i == op[t].i
  IN  /\ ~crashed
      /\ pc[t] = "dispatch"
      /\ IF i < Len(valwords[t])
         THEN /\ heap' = [heap EXCEPT ![t][valwords[t][i + 1]].valid = TRUE]
              /\ marked' = [marked EXCEPT ![t] = Append(@, valwords[t][i + 1])]
              /\ op' = [op EXCEPT ![t].i = i + 1]
              /\ UNCHANGED <<pc, result, valwords>>
         ELSE /\ valwords' = [valwords EXCEPT ![t] = <<>>]
              /\ Finish(t, <<>>)
              /\ UNCHANGED <<heap, marked, op>>
      /\ UNCHANGED <<blocked, faulted, touched, sMutex, sEnv, handler, sigmask, mOriginalAction,
                     mOriginalMask, hw, primed, nDispatch, budget, crashed>>

\* ------------------------------------------------------- the caller
\* The caller takes the result (or catches the exception) and is between
\* operations again. After a dispatch it reads the words it holds and drops
\* its handles.
Return(t) ==
  /\ ~crashed
  /\ pc[t] = "done"
  /\ pc' = [pc EXCEPT ![t] = "idle"]
  /\ op' = [op EXCEPT ![t] = NoOp]
  /\ result' = [result EXCEPT ![t] = NoResult]
  /\ touched' = [touched EXCEPT ![t] = <<>>]
  /\ IF op[t].kind = "dispatch"
     THEN /\ heap' = [heap EXCEPT ![t] = <<>>]
          /\ marked' = [marked EXCEPT ![t] = <<>>]
     ELSE UNCHANGED <<heap, marked>>
  /\ UNCHANGED <<blocked, faulted, sMutex, sEnv, handler, sigmask, mOriginalAction,
                 mOriginalMask, hw, valwords, primed, nDispatch, budget,
                 crashed>>

\* UIO::SetupSignalHandler: SigBusGuard::blockSIGBUS adds SIGBUS to the
\* calling thread's mask.
SetupSignalHandler(t) ==
  /\ ~crashed
  /\ pc[t] = "idle"
  /\ sigmask' = [sigmask EXCEPT ![t] = @ \cup {"SIGBUS"}]
  /\ blocked' = [blocked EXCEPT ![t] = TRUE]
  /\ UNCHANGED <<faulted, pc, op, result, touched, sMutex, sEnv, handler,
                 mOriginalAction, mOriginalMask, hw, valwords, heap, primed,
                 nDispatch, marked, budget, crashed>>

\* What thread t may do next, calling with arguments from in.
Step(t, in) ==
  \/ SetupSignalHandler(t)
  \/ implementWrite(t, in)
  \/ implementWriteBlock(t, in)
  \/ implementRead(t, in)
  \/ implementReadBlock(t, in)
  \/ implementRMWbits(t, in)
  \/ implementRMWsum(t, in)
  \/ implementDispatch(t)
  \/ DispatchStep(t)
  \/ GuardLock(t)
  \/ GuardCtor(t)
  \/ AccessOk(t)
  \/ AccessStray(t)
  \/ SigBus(t)
  \/ GuardDtor(t)
  \/ Return(t)

\* A process whose only caller is thread 1.
Next == Step(1, Inputs)

Spec == Init /\ [][Next]_vars

\* What thread t of a multi-threaded process may do next. The guard is the
\* same in all six operations: a one-guard operation (write, on a word that
\* answers or on one that does not) and a three-guard one (RMWsum, on the
\* word the threads share) stand for them.
StepMT(t, in) ==
  \/ implementWrite(t, in)
  \/ implementRMWsum(t, [in EXCEPT !.addrs = {BaseFirst}])
  \/ GuardLock(t)
  \/ GuardCtor(t)
  \/ AccessOk(t)
  \/ SigBus(t)
  \/ GuardDtor(t)
  \/ Return(t)

\* A process all of whose threads call into the engine.
NextMT == \E t \in Threads : StepMT(t, InputsMT)

\* Every thread has called SetupSignalHandler, and the application has its
\* own SIGBUS handler.
InitMT ==
  /\ pc = [t \in Threads |-> "idle"]
  /\ op = [t \in Threads |-> NoOp]
  /\ result = [t \in Threads |-> NoResult]
  /\ touched = [t \in Threads |-> <<>>]
  /\ sMutex = 0
  /\ sEnv = [set |-> FALSE, mask |-> {}]
  /\ handler = "app"
  /\ sigmask = [t \in Threads |-> {"SIGBUS"}]
  /\ blocked = [t \in Threads |-> TRUE]
  /\ faulted = FALSE
  /\ mOriginalAction = [t \in Threads |-> "SIG_DFL"]
  /\ mOriginalMask = [t \in Threads |-> {}]
  /\ hw = Blank
  /\ valwords = [t \in Threads |-> <<>>]
  /\ heap = [t \in Threads |-> <<>>]
  /\ primed = [t \in Threads |-> FALSE]
  /\ nDispatch = [t \in Threads |-> 0]
  /\ marked = [t \in Threads |-> <<>>]
  /\ budget = MaxOps
  /\ crashed = FALSE

SpecMT == InitMT /\ [][NextMT]_vars

\* What thread t does in a process whose threads contend for the guard:
\* writes to a word that answers and to one that does not.
StepLive(t) ==
  \/ implementWrite(t, InputsMT)
  \/ GuardLock(t)
  \/ GuardCtor(t)
  \/ AccessOk(t)
  \/ SigBus(t)
  \/ GuardDtor(t)
  \/ Return(t)

NextLive == \E t \in Threads : StepLive(t)

\* The first thread has blocked SIGBUS or has not; the others have.
InitLive ==
  /\ pc = [t \in Threads |-> "idle"]
  /\ op = [t \in Threads |-> NoOp]
  /\ result = [t \in Threads |-> NoResult]
  /\ touched = [t \in Threads |-> <<>>]
  /\ sMutex = 0
  /\ sEnv = [set |-> FALSE, mask |-> {}]
  /\ handler = "app"
  /\ sigmask \in {[t \in Threads |-> IF t = 1 THEN m ELSE {"SIGBUS"}] :
                   m \in {{}, {"SIGBUS"}}}
  /\ blocked = [t \in Threads |-> "SIGBUS" \in sigmask[t]]
  /\ faulted = FALSE
  /\ mOriginalAction = [t \in Threads |-> "SIG_DFL"]
  /\ mOriginalMask = [t \in Threads |-> {}]
  /\ hw = Blank
  /\ valwords = [t \in Threads |-> <<>>]
  /\ heap = [t \in Threads |-> <<>>]
  /\ primed = [t \in Threads |-> FALSE]
  /\ nDispatch = [t \in Threads |-> 0]
  /\ marked = [t \in Threads |-> <<>>]
  /\ budget = MaxOps
  /\ crashed = FALSE

\* A thread that is in a guard goes on (the constructor's body, the access,
\* which completes or faults, and the destructor all return), and a thread
\* waiting for the mutex gets it if it is free again and again.
FairGuards ==
  \A t \in Threads :
    /\ WF_vars(GuardCtor(t) \/ AccessOk(t) \/ SigBus(t) \/ GuardDtor(t))
    /\ SF_vars(GuardLock(t))

SpecLive == InitLive /\ [][NextLive]_vars /\ FairGuards

\* ------------------------------------------------------------ claims
AccessKinds == {"write", "read", "writeBlock", "readBlock", "RMWbits", "RMWsum"}

\* Thread t is inside a guard: from the start of its construction to the
\* end of its teardown.
InGuard(t) == pc[t] \in {"ctor", "access", "dtor"}

\* Thread t's guard is armed: handler installed, SIGBUS unmasked, checkpoint
\* set.
Armed(t) == pc[t] \in {"access", "dtor"}

\* C1: when a guarded access has failed with SigBusError, the SIGBUS
\* disposition and the thread's signal mask are what they were immediately
\* before the guard was constructed (the values its constructor saved).
C1_FaultRestoresHandlerAndMask ==
  \A t \in Threads :
    (pc[t] = "done" /\ result[t].err = "SigBusError")
      => (handler = mOriginalAction[t] /\ sigmask[t] = mOriginalMask[t])

\* C2: at most one guard is armed at any instant, and a thread holds the
\* process-wide mutex from the start of its guard's construction until the
\* teardown has finished; while a guard is armed its handler is installed,
\* SIGBUS is unmasked in its thread and the checkpoint is set.
C2_OneGuardAtATime ==
  /\ \A t \in Threads : InGuard(t) => sMutex = t
  /\ \A t, u \in Threads : (Armed(t) /\ Armed(u)) => t = u
  /\ \A t \in Threads :
       Armed(t) => (handler = "uhal" /\ "SIGBUS" \notin sigmask[t] /\ sEnv.set)

\* A thread is inside its guarded access while another waits for the mutex.
C2_Witness ==
  \E t, u \in Threads : t # u /\ pc[t] = "access" /\ pc[u] = "lock"

\* C3: an operation called with an address below the base of the first
\* registered device has failed with UIODevOOR and touched no memory.
C3_BelowFirstFailsOutOfRange ==
  \A t \in Threads :
    (op[t].kind \in AccessKinds /\ Lt32(op[t].aAddr, devices[1].uhalAddr))
      => (pc[t] = "done" /\ result[t].err = "UIODevOOR" /\ touched[t] = <<>>)

\* C4: a word a read returned is valid only if a dispatch has started since
\* the read created it.
C4_ValidOnlyAfterDispatch ==
  \A t \in Threads : \A h \in 1..Len(heap[t]) :
    heap[t][h].valid => nDispatch[t] > heap[t][h].epoch

\* A read has returned its word and no dispatch has run since: the word is
\* not valid.
C4_Witness ==
  \E t \in Threads :
    /\ pc[t] = "done" /\ op[t].kind = "read" /\ result[t].err = "none"
    /\ ~heap[t][result[t].val[1]].valid
    /\ nDispatch[t] = heap[t][result[t].val[1]].epoch

\* C5: when a dispatch has finished, every word read before it is valid, the
\* buffer is empty, and the words were marked in the order of their creation.
C5_DispatchMarksAllInOrder ==
  \A t \in Threads :
    (pc[t] = "done" /\ op[t].kind = "dispatch")
      => /\ \A h \in 1..Len(heap[t]) : heap[t][h].valid
         /\ valwords[t] = <<>>
         /\ marked[t] = [k \in 1..Len(heap[t]) |-> k]

\* A dispatch has finished after two reads.
C5_Witness ==
  \E t \in Threads :
    pc[t] = "done" /\ op[t].kind = "dispatch" /\ Len(heap[t]) = 2

\* offset >= size, on the halves.
AtOrPastEnd(offset, size) ==
  offset[1] > size[1] \/ (offset[1] = size[1] /\ offset[2] >= size[2])

\* C6: a single-word read or write whose offset is at or past the size of
\* its device has failed with UIODevOOR; one whose offset is below the size
\* never fails with UIODevOOR.
C6_WindowBoundaryExclusive ==
  \A t \in Threads :
    op[t].kind \in {"read", "write"}
      => IF AtOrPastEnd(op[t].offset, op[t].dev.size)
         THEN pc[t] = "done" /\ result[t].err = "UIODevOOR"
         ELSE result[t].err # "UIODevOOR"

\* A single-word read or write at offset == size has failed with UIODevOOR.
C6_Witness ==
  \E t \in Threads :
    /\ op[t].kind \in {"read", "write"}
    /\ op[t].offset = op[t].dev.size
    /\ op[t].dev \notin GarbageDevices
    /\ result[t].err = "UIODevOOR"

\* C7: the step in which an operation fails with UIODevOOR is the first of
\* the operation (no guard was constructed), and it changes neither device
\* memory nor the dispatch buffer, and touches no word.
C7_OutOfRangeBeforeAnyAccess ==
  [][\A t \in Threads :
       (result'[t].err = "UIODevOOR" /\ result[t].err # "UIODevOOR")
         => /\ pc[t] = "idle"
            /\ hw' = hw
            /\ valwords' = valwords /\ heap' = heap
            /\ touched'[t] = <<>>
            /\ sMutex' = sMutex /\ handler' = handler /\ sigmask' = sigmask]_vars

\* A block write whose start is inside the window and whose end is not has
\* failed with UIODevOOR.
C7_Witness ==
  \E t \in Threads :
    /\ op[t].kind = "writeBlock" /\ result[t].err = "UIODevOOR"
    /\ Lt32(op[t].offset, op[t].dev.size)

\* C8: a guard constructed on a thread whose mask does not block SIGBUS fails
\* with SignalNotBlocked: the operation ends there and the guarded access is
\* not performed.
C8_UnblockedSignalRejected ==
  [][\A t \in Threads :
       (pc[t] = "ctor" /\ pc'[t] # "ctor" /\ "SIGBUS" \notin sigmask[t])
         => /\ pc'[t] = "done"
            /\ result'[t].err = "SignalNotBlocked"
            /\ hw' = hw
            /\ touched' = touched /\ op' = op]_vars

\* An operation has failed with SignalNotBlocked on a thread whose mask did
\* not block SIGBUS.
C8_Witness ==
  \E t \in Threads :
    /\ pc[t] = "done" /\ result[t].err = "SignalNotBlocked"
    /\ "SIGBUS" \notin mOriginalMask[t]

\* The operation reads and writes one word, which is in the window of a
\* registered device and whose hardware answers.
OnAnsweringWord(o) ==
  /\ o.kind \in {"write", "read", "RMWbits", "RMWsum"}
  /\ InWindow(o.dev, o.offset)
  /\ Answers(o.dev.hw, Index(o.offset))

\* C9: after a bus fault, an access of a word that answers, by a thread that
\* has blocked SIGBUS as required, completes without error.
C9_LaterAccessesUnaffected ==
  \A t \in Threads :
    (faulted /\ blocked[t] /\ pc[t] = "done" /\ OnAnsweringWord(op[t]))
      => result[t].err = "none"

\* C10: when an INCREMENTAL block operation on a registered device has failed
\* with SigBusError at its i-th word, no later word was accessed and the
\* message (when it is read intact) is the one made of the failing word's
\* address, aAddr + i.
C10_BlockFaultNamesFailingWord ==
  \A t \in Threads :
    (/\ pc[t] = "done" /\ result[t].err = "SigBusError"
     /\ op[t].kind \in {"readBlock", "writeBlock"}
     /\ op[t].mode = "INCREMENTAL"
     /\ op[t].dev \notin GarbageDevices
     /\ result[t].msg # GarbageMsg)
      => /\ Len(touched[t]) = op[t].i + 1
         /\ result[t].msg = FormatMsg(Add32(op[t].aAddr, U32(op[t].i)))

\* C11: an operation called with the address of word k of a registered
\* device's window works on that device with offset k, and every load and
\* store it makes is on that device's memory: word k, or word k + j - 1 for
\* the j-th access of an INCREMENTAL block.
C11_ResolvesOwningDevice ==
  \A t \in Threads : \A d \in 1..Len(devices), k \in 0..(WindowWords - 1) :
    (op[t].kind \in AccessKinds
     /\ op[t].aAddr = Add32(devices[d].uhalAddr, U32(k)))
      => /\ op[t].dev = devices[d]
         /\ op[t].kind \notin {"readBlock", "writeBlock"} => op[t].offset = U32(k)
         /\ \A j \in 1..Len(touched[t]) :
              touched[t][j] =
                <<devices[d].hw,
                  U32(IF /\ op[t].kind \in {"readBlock", "writeBlock"}
                         /\ op[t].mode = "INCREMENTAL"
                      THEN k + j - 1 ELSE k)>>

\* A write to the base address of the second device has stored to word 0 of
\* that device.
C11_Witness ==
  \E t \in Threads :
    /\ pc[t] = "done" /\ op[t].kind = "write" /\ result[t].err = "none"
    /\ op[t].aAddr = BaseSecond /\ touched[t] = <<<<2, U32(0)>>>>

\* Bit b (0..31) of a 32-bit word.
Bit(a, b) == IF b < 16 THEN (a[2] \div (2 ^ b)) % 2 ELSE (a[1] \div (2 ^ (b - 16))) % 2

\* Thread t's finished operation met no fault: its thread had blocked SIGBUS,
\* no bus fault happened before it, and its word is one that answers.
Undisturbed(t) == blocked[t] /\ ~faulted /\ pc[t] = "done" /\ OnAnsweringWord(op[t])

\* The memory is mem except that word k of mapping h holds w.
SameBut(mem, h, k, w) ==
  \A g \in DOMAIN hw : \A j \in DOMAIN hw[g] :
    hw[g][j] = IF g = h /\ j = k THEN w ELSE mem[g][j]

\* C12: with no fault and a single caller, a finished RMWbits on a register
\* that held v leaves (v & aANDterm) | aORterm in that register (bit by bit)
\* and nothing else changed, and returns that word without error; with
\* aANDterm = 0 and aORterm = 0xFF the word returned is 0xFF.
C12_RMWbitsStoresAndReturns ==
  \A t \in Threads :
    (Undisturbed(t) /\ op[t].kind = "RMWbits")
      => LET o == op[t]
             k == Index(o.offset)
             v == o.hw0[o.dev.hw][k]
             w == hw[o.dev.hw][k]
         IN  /\ result[t].err = "none"
             /\ result[t].val = <<w>>
             /\ SameBut(o.hw0, o.dev.hw, k, w)
             /\ \A b \in 0..31 :
                  Bit(w, b) = 1 <=> (Bit(v, b) = 1 /\ Bit(o.arg1, b) = 1)
                                      \/ Bit(o.arg2, b) = 1
             /\ (o.arg1 = U32(0) /\ o.arg2 = U32(255)) => result[t].val = <<U32(255)>>

\* RMWbits with aANDterm = 0 and aORterm = 0xFF on a register that held
\* 0xFFFFFFFF has returned 0xFF.
C12_Witness ==
  \E t \in Threads :
    /\ Undisturbed(t) /\ op[t].kind = "RMWbits"
    /\ op[t].arg1 = U32(0) /\ op[t].arg2 = U32(255)
    /\ op[t].hw0[op[t].dev.hw][Index(op[t].offset)] = <<Half - 1, Half - 1>>
    /\ result[t].val = <<U32(255)>>

\* v + 1 and v - 1 modulo 2^32, on the halves.
Succ32(v) ==
  IF v[2] + 1 < Half THEN <<v[1], v[2] + 1>>
  ELSE IF v[1] + 1 < Half THEN <<v[1] + 1, 0>> ELSE <<0, 0>>

Pred32(v) ==
  IF v[2] > 0 THEN <<v[1], v[2] - 1>>
  ELSE IF v[1] > 0 THEN <<v[1] - 1, Half - 1>> ELSE <<Half - 1, Half - 1>>

\* C13: with no fault and a single caller, a finished RMWsum on a register
\* that held v leaves v + aAddend modulo 2^32 in that register and nothing
\* else changed, and returns that word without error (aAddend +1 and -1,
\* the latter as the pattern 0xFFFFFFFF).
C13_RMWsumWraps ==
  \A t \in Threads :
    (Undisturbed(t) /\ op[t].kind = "RMWsum")
      => LET o == op[t]
             k == Index(o.offset)
             v == o.hw0[o.dev.hw][k]
             w == IF o.arg1 = U32(1) THEN Succ32(v) ELSE Pred32(v)
         IN  /\ o.arg1 \in {U32(1), <<Half - 1, Half - 1>>}
             /\ result[t].err = "none"
             /\ result[t].val = <<w>>
             /\ SameBut(o.hw0, o.dev.hw, k, w)

\* RMWsum with aAddend = 1 on a register that held 0xFFFFFFFF has returned 0.
C13_Witness ==
  \E t \in Threads :
    /\ Undisturbed(t) /\ op[t].kind = "RMWsum" /\ op[t].arg1 = U32(1)
    /\ op[t].hw0[op[t].dev.hw][Index(op[t].offset)] = <<Half - 1, Half - 1>>
    /\ result[t].val = <<U32(0)>> /\ result[t].err = "none"

\* offset + n >= size, on the halves (offset[2] + n stays below 2^16 here).
EndAtOrPastEnd(offset, n, size) ==
  offset[1] > size[1] \/ (offset[1] = size[1] /\ offset[2] + n >= size[2])

\* C14: a block write whose start offset is at or past the size of its
\* device, or whose start offset plus length is, has failed with UIODevOOR
\* having stored nothing; any other block write never fails with UIODevOOR
\* and, when it has finished without error, has made one store per value
\* (in INCREMENTAL mode value j is in word offset + j - 1).
C14_WriteBlockBounds ==
  \A t \in Threads :
    op[t].kind = "writeBlock"
      => LET o == op[t]
             off0 == Sub32(o.aAddr, o.dev.uhalAddr)
             n == Len(o.vals)
         IN  IF AtOrPastEnd(off0, o.dev.size) \/ EndAtOrPastEnd(off0, n, o.dev.size)
             THEN /\ pc[t] = "done" /\ result[t].err = "UIODevOOR"
                  /\ touched[t] = <<>> /\ hw = o.hw0
             ELSE /\ result[t].err # "UIODevOOR"
                  /\ (pc[t] = "done" /\ result[t].err = "none")
                       => /\ Len(touched[t]) = n
                          /\ (o.mode = "INCREMENTAL" /\ o.dev \notin GarbageDevices)
                               => \A j \in 1..n :
                                    hw[o.dev.hw][off0[2] + j - 1] = o.vals[j]

\* A block write from the first word of a window that would end on its last
\* word has failed with UIODevOOR.
C14_Witness ==
  \E t \in Threads :
    /\ op[t].kind = "writeBlock" /\ op[t].aAddr = BaseFirst
    /\ op[t].dev = devices[1] /\ Len(op[t].vals) = WindowWords
    /\ pc[t] = "done" /\ result[t].err = "UIODevOOR"

\* A finished write has left aValue in its word and every other word as it
\* was.
WriteStores(t) ==
  (Undisturbed(t) /\ op[t].kind = "write")
    => /\ result[t].err = "none"
       /\ SameBut(op[t].hw0, op[t].dev.hw, Index(op[t].offset), op[t].arg1)

\* A finished read has left memory as it was and returned a handle to the
\* word its register held, with the mask it was given.
ReadLoads(t) ==
  (Undisturbed(t) /\ op[t].kind = "read")
    => /\ result[t].err = "none"
       /\ hw = op[t].hw0
       /\ LET vw == heap[t][result[t].val[1]]
          IN  /\ vw.value = hw[op[t].dev.hw][Index(op[t].offset)]
              /\ vw.mask = op[t].arg1

\* A finished dispatch has made every word read before it valid.
DispatchValidates(t) ==
  (pc[t] = "done" /\ op[t].kind = "dispatch")
    => \A h \in 1..Len(heap[t]) : heap[t][h].valid

\* Memory changes only in the access step of an operation, and a word a
\* read returned keeps its value and mask while its handle lives.
OnlyAccessStores ==
  /\ (\A t \in Threads : pc[t] # "access") => hw' = hw
  /\ \A t \in Threads : \A h \in 1..Len(heap[t]) :
       h <= Len(heap'[t])
         => /\ heap'[t][h].value = heap[t][h].value
            /\ heap'[t][h].mask = heap[t][h].mask

\* C15: write(a, v) leaves v in the word of a and changes no other word; a
\* read(a, mask) returns the word a holds and changes no word; a dispatch
\* makes the word returned valid; and no step between operations changes
\* memory or a returned word. So a read of a after a write of v to a, with
\* writes to other addresses in between, yields v, valid after the dispatch.
C15_WriteReadRoundTrip ==
  /\ [](\A t \in Threads : WriteStores(t) /\ ReadLoads(t) /\ DispatchValidates(t))
  /\ [][OnlyAccessStores]_vars

\* A dispatch has finished and a word it made valid, read with the mask
\* 0xFFFFFFFF, is the 0xFFFFFFFF a write put in the register.
C15_Witness ==
  \E t \in Threads :
    /\ pc[t] = "done" /\ op[t].kind = "dispatch"
    /\ \E h \in 1..Len(heap[t]) :
         /\ heap[t][h].valid
         /\ heap[t][h].value = <<Half - 1, Half - 1>>
         /\ heap[t][h].mask = <<Half - 1, Half - 1>>

\* Word j (0-based) of the block operation o: offset + j of its device in
\* INCREMENTAL mode, offset otherwise.
BlockWord(o, j) ==
  Sub32(o.aAddr, o.dev.uhalAddr)[2] + (IF o.mode = "INCREMENTAL" THEN j ELSE 0)

\* The block operation o starts in the window of its registered device, and
\* every word of it is in the window and answers.
BlockAnswers(o) ==
  /\ o.dev \notin GarbageDevices
  /\ Lt32(Sub32(o.aAddr, o.dev.uhalAddr), o.dev.size)
  /\ \A j \in 0..(Len(o.vals) - 1) :
       /\ BlockWord(o, j) < WindowWords
       /\ Answers(o.dev.hw, BlockWord(o, j))

\* C16: a finished readBlock that starts in its window and all of whose
\* words answer, on a thread that blocked SIGBUS and with no earlier fault,
\* has returned without error;
\* a readBlock that returned without error returned aSize words, left memory
\* as it was, and element j is the word at offset + j (INCREMENTAL) or at
\* offset (otherwise) for every such word of the window.
C16_ReadBlockContents ==
  \A t \in Threads :
    (pc[t] = "done" /\ op[t].kind = "readBlock")
      => LET o == op[t]
         IN  /\ (blocked[t] /\ ~faulted /\ BlockAnswers(o)) => result[t].err = "none"
             /\ (result[t].err = "none" /\ o.dev \notin GarbageDevices)
                  => /\ Len(result[t].val) = Len(o.vals)
                     /\ hw = o.hw0
                     /\ \A j \in 0..(Len(o.vals) - 1) :
                          BlockWord(o, j) < WindowWords
                            => result[t].val[j + 1] = o.hw0[o.dev.hw][BlockWord(o, j)]

\* An INCREMENTAL readBlock of the first two words of the first window has
\* returned two different words.
C16_Witness ==
  \E t \in Threads :
    /\ pc[t] = "done" /\ op[t].kind = "readBlock" /\ result[t].err = "none"
    /\ op[t].mode = "INCREMENTAL" /\ op[t].aAddr = BaseFirst
    /\ op[t].dev = devices[1]
    /\ Len(result[t].val) = 2
    /\ result[t].val[1] # result[t].val[2]

\* C17: a thread that is outside a guard does not hold the mutex, whichever
\* way it left its last guard, and a thread waiting for the mutex finishes
\* its operation (unless the process is killed).
C17_NoDeadlock ==
  /\ [](\A t \in Threads : ~InGuard(t) => sMutex # t)
  /\ \A t \in Threads : (pc[t] = "lock") ~> (pc[t] = "done" \/ crashed)

\* A thread waits for the mutex after another thread's operation has ended
\* in a bus fault.
C17_Witness ==
  \E t, u \in Threads :
    /\ t # u /\ pc[t] = "lock" /\ pc[u] = "done"
    /\ result[u].err = "SigBusError"

\* C18: when an operation whose guards were all constructed and whose
\* accesses all completed has finished, the SIGBUS disposition and the
\* thread's mask are what they were when it was called, SIGBUS blocked.
C18_GuardRoundTrip ==
  \A t \in Threads :
    (/\ pc[t] = "done" /\ op[t].kind \in AccessKinds
     /\ result[t].err = "none" /\ touched[t] # <<>>)
      => /\ handler = op[t].handler0
         /\ sigmask[t] = op[t].mask0
         /\ "SIGBUS" \in sigmask[t]

\* A write has completed on a thread that had every signal blocked, in a
\* process with a SIGBUS handler of its own.
C18_Witness ==
  \E t \in Threads :
    /\ pc[t] = "done" /\ op[t].kind = "write" /\ result[t].err = "none"
    /\ touched[t] # <<>>
    /\ op[t].handler0 = "app" /\ handler = "app"
    /\ op[t].mask0 = Signals /\ sigmask[t] = Signals

\* C19: the message of a SigBusError (when it is read intact) is made of all
\* eight hexadecimal digits of the address the operation was called with.
C19_MessageHasEightDigits ==
  \A t \in Threads :
    (pc[t] = "done" /\ result[t].err = "SigBusError"
     /\ result[t].msg # GarbageMsg)
      => result[t].msg = Hex8(op[t].aAddr)

\* C20: every load and store of an operation on a registered device is at
\* an offset below the size of the device.
C20_AccessesInsideWindow ==
  \A t \in Threads : \A j \in 1..Len(touched[t]) :
    op[t].dev \notin GarbageDevices
      => /\ touched[t][j][1] = op[t].dev.hw
         /\ Lt32(touched[t][j][2], op[t].dev.size)

\* C21: when two threads have each finished an RMWsum on the same register
\* without error, no fault has happened and these are the only operations
\* the process has started, the register holds its initial word plus both
\* addends modulo 2^32.
C21_NoLostUpdate ==
  \A t, u \in Threads :
    (/\ t # u /\ ~faulted /\ budget = MaxOps - 2
     /\ pc[t] = "done" /\ pc[u] = "done"
     /\ op[t].kind = "RMWsum" /\ op[u].kind = "RMWsum"
     /\ op[t].aAddr = op[u].aAddr /\ op[t].dev = op[u].dev
     /\ OnAnsweringWord(op[t])
     /\ result[t].err = "none" /\ result[u].err = "none")
      => hw[op[t].dev.hw][Index(op[t].offset)] =
           Add32(Add32(Blank[op[t].dev.hw][Index(op[t].offset)], op[t].arg1),
                 op[u].arg1)

====
